---- MODULE Spec2Model ----
(***************************************************************************)
(* The four tutorial notebooks of llamaindex-agents as one state machine.  *)
(*                                                                         *)
(* A notebook is a straight-line program of statements (its code cells,    *)
(* run top to bottom).  The agent loop that a chat statement enters is the *)
(* one the notebooks' recorded cell outputs show: the user message is      *)
(* added to memory, the hosted model either requests a function call       *)
(* (call record, tool runs, output record) or gives the final answer, and  *)
(* the call returns to the notebook, which may print the response.         *)
(***************************************************************************)
EXTENDS Integers, Sequences, FiniteSets

VARIABLES
    nb,          \* the notebook being run
    pc,          \* index of the next statement of Program(nb)
    waiting,     \* TRUE while the statement at pc is blocked in an agent call
    environ,     \* os.environ["OPENAI_API_KEY"] ("none" when unset)
    dotfile,     \* OPENAI_API_KEY in the .env file ("none" when absent)
    api_key,     \* api_key / openai.api_key ("unset" before os.getenv ran)
    steps,       \* kinds of the set-up statements executed so far, in order
    agentTools,  \* names of the tools registered with the agent ({} = no agent)
    verbose,     \* the agent's verbose flag
    phase,       \* position of the agent loop inside the current call
    turn,        \* number of the chat turn last issued (0 = none)
    nTools,      \* tool invocations started in the current turn
    nFailed,     \* tool invocations of the current turn that ended in an error
    afterFail,   \* tool invocations started after a failed one, same turn
    pending,     \* the function call the model requested
    mulResult,   \* last multiply invocation: <<a, b, result>> (<<>> = none)
    events,      \* events of the current interaction, in order
    stdout,      \* records written to the current cell's output stream
    issued,      \* turns issued, in order (one entry per agent call)
    returned,    \* turns whose call returned, in order
    printed,     \* turns whose response was handed to print, in order
    inflight,    \* turns whose call was issued and has neither returned nor raised
    memory,      \* the agent's conversation memory
    files,       \* files written to disk: records [name, by]
    exc,         \* failure raised by the library ("none" = no failure)
    raisedAt,    \* where the failure was raised
    cellError,   \* the error that came out of the notebook code
    env0,        \* os.environ["OPENAI_API_KEY"] when the kernel started
    defined,     \* names defined by the code of earlier invocations
    lastRun,     \* the last code_interpreter invocation that finished
    shadowOut    \* cell output of the same run made with another valid key

vars == <<nb, pc, waiting, environ, dotfile, api_key, steps, agentTools,
          verbose, phase, turn, nTools, nFailed, afterFail, pending,
          mulResult, events, stdout, issued, returned, printed, inflight,
          memory, files, exc, raisedAt, cellError, env0, defined, lastRun,
          shadowOut>>

\* Most tool invocations the hosted model may request within one turn.
MaxToolCalls == 2

Notebooks == {"calc", "arxiv", "code", "ddg"}

ToolNames == {"multiply", "arxiv_query", "code_interpreter", "search"}

\* Arguments the hosted model may pass to multiply.
MulArgs == {-3, -1, 0, 2, 1234, 4567}

\* Failures the external library can raise.
FailureKinds == {"MissingKey", "InvalidCredential", "NetworkError",
                 "MalformedToolArgs"}

NoCall == [name |-> "none", a |-> 0, b |-> 0, uses |-> {}, defs |-> {}]

NoRun == [uses |-> {}, before |-> {}, outcome |-> "none"]

\* Code the hosted model handed to code_interpreter in the recorded run, by
\* the names it defines and the names it reads without defining them.
CodeShapes ==
    { [defs |-> {"data"}, uses |-> {}],
      [defs |-> {"top_10_happiest_countries"}, uses |-> {"data"}],
      [defs |-> {"data", "top_10_happiest_countries"}, uses |-> {}],
      [defs |-> {}, uses |-> {"top_10_happiest_countries"}] }

S(k, n, f) == [kind |-> k, n |-> n, flag |-> f]

CalcProgramBadOrder ==
    << S("llm", 0, FALSE), S("agent", 0, FALSE), S("chat", 1, FALSE),
       S("print", 1, FALSE), S("load_dotenv", 0, TRUE), S("getenv", 0, FALSE),
       S("tool", 0, FALSE) >>

\* A notebook whose agent is built, and first turn issued, before the
\* credentials are loaded.
ProgramBadOrder(n) ==
    CalcProgramBadOrder

\* The statements of each notebook, in cell order.  flag is override for
\* load_dotenv and verbose for agent; n is the turn of a chat or print.
Program(n) ==
    CASE n = "calc" ->
           << S("load_dotenv", 0, TRUE), S("getenv", 0, FALSE),
              S("tool", 0, FALSE), S("llm", 0, FALSE), S("agent", 0, FALSE),
              S("chat", 1, FALSE), S("print", 1, FALSE) >>
      [] n = "arxiv" ->
           << S("load_dotenv", 0, TRUE), S("getenv", 0, FALSE),
              S("llm", 0, FALSE), S("tool", 0, FALSE), S("agent", 0, TRUE),
              S("chat", 1, FALSE), S("print", 1, FALSE) >>
      [] n = "code" ->
           << S("load_dotenv", 0, TRUE), S("getenv", 0, FALSE),
              S("tool", 0, FALSE), S("agent", 0, TRUE),
              S("chat", 1, FALSE), S("print", 1, FALSE),
              S("chat", 2, FALSE), S("print", 2, FALSE),
              S("chat", 3, FALSE), S("print", 3, FALSE),
              S("chat", 4, FALSE), S("print", 4, FALSE),
              S("chat", 5, FALSE), S("print", 5, FALSE),
              S("chat", 6, FALSE), S("print", 6, FALSE),
              S("chat", 7, FALSE) >>
      [] n = "ddg" ->
           << S("load_dotenv", 0, FALSE), S("tool", 0, FALSE),
              S("agent", 0, FALSE),
              S("chat", 1, FALSE), S("print", 1, FALSE),
              S("chat", 2, FALSE), S("print", 2, FALSE) >>

\* The tool list each notebook hands to its agent.
RegisteredTools(n) ==
    CASE n = "calc" -> {"multiply"}
      [] n = "arxiv" -> {"arxiv_query"}
      [] n = "code" -> {"code_interpreter"}
      [] n = "ddg" -> {"search"}

Done == pc > Len(Program(nb))

Running == exc = "none" /\ ~Done

Stmt == Program(nb)[pc]

Init ==
    /\ nb \in Notebooks
    /\ pc = 1
    /\ waiting = FALSE
    /\ env0 \in {"none", "envkey"}
    /\ environ = env0
    /\ dotfile \in {"none", "dotkey"}
    /\ api_key = "unset"
    /\ steps = <<>>
    /\ agentTools = {}
    /\ verbose = FALSE
    /\ phase = "idle"
    /\ turn = 0
    /\ nTools = 0
    /\ nFailed = 0
    /\ afterFail = 0
    /\ pending = NoCall
    /\ mulResult = <<>>
    /\ events = <<>>
    /\ stdout = <<>>
    /\ issued = <<>>
    /\ returned = <<>>
    /\ printed = <<>>
    /\ inflight = {}
    /\ memory = <<>>
    /\ files = {}
    /\ exc = "none"
    /\ raisedAt = "none"
    /\ cellError = "none"
    /\ defined = {}
    /\ lastRun = NoRun
    /\ shadowOut = <<>>


AlwaysOverrides(env, dot, override) ==
    IF dot = "none" THEN env ELSE dot

\* load_dotenv: a key of the .env file is copied into os.environ; a value
\* already in os.environ is replaced only when override is set.
LoadDotenv(env, dot, override) ==
    IF dot = "none" THEN env
    ELSE IF override THEN dot
    ELSE IF env = "none" THEN dot
    ELSE env

GetenvOrPlaceholder(env) == IF env = "none" THEN "placeholder" ELSE env

\* os.getenv("OPENAI_API_KEY"): the environment's value, None when unset.
Getenv(env) == env

\* The key the LLM client ends up with: the one handed to it, else the
\* environment's.
EffectiveKey ==
    IF api_key \in {"unset", "none"} THEN environ ELSE api_key

KeyPresent == EffectiveKey # "none"

\* load_dotenv(...) / load_dotenv(override=True)
LoadCredentials ==
    /\ Running /\ ~waiting
    /\ Stmt.kind = "load_dotenv"
    /\ environ' = LoadDotenv(environ, dotfile, Stmt.flag)
    /\ steps' = Append(steps, "load_dotenv")
    /\ pc' = pc + 1
    /\ UNCHANGED <<nb, waiting, dotfile, api_key, agentTools, verbose, phase,
                   turn, nTools, nFailed, afterFail, pending, mulResult,
                   events, stdout, issued, returned, printed, inflight,
                   memory, files, exc, raisedAt, cellError,
                   env0, defined, lastRun, shadowOut>>

\* api_key = os.getenv("OPENAI_API_KEY") / openai.api_key = os.getenv(...)
ReadKey ==
    /\ Running /\ ~waiting
    /\ Stmt.kind = "getenv"
    /\ api_key' = Getenv(environ)
    /\ steps' = Append(steps, "getenv")
    /\ pc' = pc + 1
    /\ UNCHANGED <<nb, waiting, environ, dotfile, agentTools, verbose, phase,
                   turn, nTools, nFailed, afterFail, pending, mulResult,
                   events, stdout, issued, returned, printed, inflight,
                   memory, files, exc, raisedAt, cellError,
                   env0, defined, lastRun, shadowOut>>

\* OpenAI(model="gpt-4o-mini", ...)
ConstructLlm ==
    /\ Running /\ ~waiting
    /\ Stmt.kind = "llm"
    /\ steps' = Append(steps, "llm")
    /\ pc' = pc + 1
    /\ UNCHANGED <<nb, waiting, environ, dotfile, api_key, agentTools,
                   verbose, phase, turn, nTools, nFailed, afterFail, pending,
                   mulResult, events, stdout, issued, returned, printed,
                   inflight, memory, files, exc, raisedAt, cellError,
                   env0, defined, lastRun, shadowOut>>

\* def multiply / ArxivToolSpec() / CodeInterpreterToolSpec() /
\* DuckDuckGoSearchToolSpec()
ConstructTool ==
    /\ Running /\ ~waiting
    /\ Stmt.kind = "tool"
    /\ steps' = Append(steps, "tool")
    /\ pc' = pc + 1
    /\ UNCHANGED <<nb, waiting, environ, dotfile, api_key, agentTools,
                   verbose, phase, turn, nTools, nFailed, afterFail, pending,
                   mulResult, events, stdout, issued, returned, printed,
                   inflight, memory, files, exc, raisedAt, cellError,
                   env0, defined, lastRun, shadowOut>>

\* FunctionAgent(tools=[multiply], ...) / OpenAIAgent.from_tools(tools, ...)
ConstructAgent ==
    /\ Running /\ ~waiting
    /\ Stmt.kind = "agent"
    /\ agentTools' = RegisteredTools(nb)
    /\ verbose' = Stmt.flag
    /\ steps' = Append(steps, "agent")
    /\ pc' = pc + 1
    /\ UNCHANGED <<nb, waiting, environ, dotfile, api_key, phase, turn,
                   nTools, nFailed, afterFail, pending, mulResult, events,
                   stdout, issued, returned, printed, inflight, memory,
                   files, exc, raisedAt, cellError,
                   env0, defined, lastRun, shadowOut>>


\* ------------------------------------------------------------ agent call

Rec(k, f) == [kind |-> k, fn |-> f]

DropsOutputRecord(v, rec) ==
    IF v /\ rec.kind # "output" THEN <<rec>> ELSE <<>>

\* With verbose=True the agent writes its steps to the cell's output.
VerboseRecords(v, rec) == IF v THEN <<rec>> ELSE <<>>

NonBlockingIssue(p) == [pc |-> p + 1, waiting |-> FALSE]

\* agent.chat(...) and await agent.run(...) hold the statement until the
\* call returns.
AfterIssue(p) == [pc |-> p, waiting |-> TRUE]

ForgetThenRemember(mem, t) == <<[role |-> "user", turn |-> t]>>

\* "Added user message to memory: ...": the message joins what the agent
\* object already remembers.
RememberUser(mem, t) == Append(mem, [role |-> "user", turn |-> t])

\* The key of the second run: valid, and neither of this run's values.
ShadowKey == "otherkey"

PrintsKey(key, reply) == key

\* print(response): the text handed to print is the response's, whatever
\* key the client was built with.
PrintedText(key, reply) == reply

\* agent.chat(msg) / await agent.run(msg): the user message is added to the
\* agent's memory and handed to the hosted model.
ChatIssue ==
    /\ Running /\ ~waiting
    /\ Stmt.kind = "chat"
    /\ turn' = Stmt.n
    /\ issued' = Append(issued, Stmt.n)
    /\ inflight' = inflight \cup {Stmt.n}
    /\ memory' = RememberUser(memory, Stmt.n)
    /\ stdout' = VerboseRecords(verbose, Rec("memory", ""))
    /\ shadowOut' = VerboseRecords(verbose, Rec("memory", ""))
    /\ events' = <<"user">>
    /\ phase' = "llm"
    /\ nTools' = 0
    /\ nFailed' = 0
    /\ afterFail' = 0
    /\ pending' = NoCall
    /\ pc' = AfterIssue(pc).pc
    /\ waiting' = AfterIssue(pc).waiting
    /\ UNCHANGED <<nb, environ, dotfile, api_key, steps, agentTools, verbose,
                   mulResult, returned, printed, files, exc, raisedAt,
                   cellError,
                   env0, defined, lastRun>>

AnyToolName(tools) == ToolNames

\* The hosted model is sent the definitions of the agent's tools and picks
\* the function to call among them.
ToolChoices(tools) == tools

ArgsFor(name) ==
    IF name = "multiply"
    THEN {[name |-> name, a |-> x, b |-> y, uses |-> {}, defs |-> {}] :
             x \in MulArgs, y \in MulArgs}
    ELSE IF name = "code_interpreter"
    THEN {[name |-> name, a |-> 0, b |-> 0, uses |-> c.uses, defs |-> c.defs] :
             c \in CodeShapes}
    ELSE {[name |-> name, a |-> 0, b |-> 0, uses |-> {}, defs |-> {}]}

\* The hosted model's completion asks for a function call.
LlmRequestTool ==
    /\ exc = "none" /\ phase = "llm"
    /\ KeyPresent
    /\ nTools < MaxToolCalls
    /\ \E name \in ToolChoices(agentTools) :
         \E call \in ArgsFor(name) :
           pending' = call
    /\ phase' = "dispatch"
    /\ UNCHANGED <<nb, pc, waiting, environ, dotfile, api_key, steps,
                   agentTools, verbose, turn, nTools, nFailed, afterFail,
                   mulResult, events, stdout, issued, returned, printed,
                   inflight, memory, files, exc, raisedAt, cellError,
                   env0, defined, lastRun, shadowOut>>

\* "=== Calling Function ===  Calling function: <name> with args: ..."
ToolCall ==
    /\ exc = "none" /\ phase = "dispatch"
    /\ stdout' = stdout \o VerboseRecords(verbose, Rec("call", pending.name))
    /\ shadowOut' = shadowOut
                      \o VerboseRecords(verbose, Rec("call", pending.name))
    /\ events' = Append(events, "tool")
    /\ nTools' = nTools + 1
    /\ afterFail' = IF nFailed > 0 THEN afterFail + 1 ELSE afterFail
    /\ phase' = "tool"
    /\ UNCHANGED <<nb, pc, waiting, environ, dotfile, api_key, steps,
                   agentTools, verbose, turn, nFailed, pending, mulResult,
                   issued, returned, printed, inflight, memory, files, exc,
                   raisedAt, cellError,
                   env0, defined, lastRun>>

add(a, b) == a + b

\* def multiply(a: float, b: float) -> float: return a * b
multiply(a, b) == a * b

\* How an invocation can end: code handed to code_interpreter can fail,
\* which the tool reports on StdErr.
Outcomes(name) ==
    IF name = "code_interpreter" THEN {"ok", "error"} ELSE {"ok"}

EveryToolWrites(name, outcome) == {"none", "output.png"}

\* Files the invoked code can leave on disk (plt.savefig('output.png'),
\* plt.savefig('output_lowest.png')).
ToolWrites(name, outcome) ==
    IF name = "code_interpreter" /\ outcome = "ok"
    THEN {"none", "output.png", "output_lowest.png"}
    ELSE {"none"}

RaiseOnToolError(outcome) ==
    IF outcome = "error" THEN "ToolError" ELSE "none"

\* A failed invocation is handed back to the model as the tool's output
\* ("Got output: ... StdErr: ..."); nothing is raised.
ExcAfterTool(outcome) == "none"

KeepsNames(carried) == carried

\* Names the interpreter already knows when an invocation starts: every
\* invocation starts from nothing ("NameError: name 'data' is not defined"
\* after an invocation that defined data).
InterpreterNames(carried) == {}

\* "Got output: ..." : the tool ran and its output goes back to the model.
ToolReturn ==
    /\ exc = "none" /\ phase = "tool"
    /\ \E outcome \in Outcomes(pending.name) :
         \E w \in ToolWrites(pending.name, outcome) :
           /\ outcome = "ok" => pending.uses \subseteq InterpreterNames(defined)
           /\ defined' = IF pending.name = "code_interpreter" /\ outcome = "ok"
                         THEN defined \cup pending.defs
                         ELSE defined
           /\ lastRun' = IF pending.name = "code_interpreter"
                         THEN [uses |-> pending.uses, before |-> defined,
                               outcome |-> outcome]
                         ELSE lastRun
           /\ nFailed' = IF outcome = "error" THEN nFailed + 1 ELSE nFailed
           /\ files' = IF w = "none" THEN files
                       ELSE files \cup {[name |-> w, by |-> pending.name]}
           /\ exc' = ExcAfterTool(outcome)
           /\ stdout' = stdout \o VerboseRecords(verbose, Rec("output", outcome))
           /\ shadowOut' = shadowOut
                             \o VerboseRecords(verbose, Rec("output", outcome))
    /\ mulResult' = IF pending.name = "multiply"
                    THEN <<pending.a, pending.b, multiply(pending.a, pending.b)>>
                    ELSE mulResult
    /\ phase' = "llm"
    /\ UNCHANGED <<nb, pc, waiting, environ, dotfile, api_key, steps,
                   agentTools, verbose, turn, nTools, afterFail, pending,
                   events, issued, returned, printed, inflight, memory,
                   raisedAt, cellError,
                   env0>>

\* The hosted model's completion is the final answer of the turn.
LlmFinal ==
    /\ exc = "none" /\ phase = "llm"
    /\ KeyPresent
    /\ phase' = "final"
    /\ events' = Append(events, "final")
    /\ memory' = Append(memory, [role |-> "assistant", turn |-> turn])
    /\ UNCHANGED <<nb, pc, waiting, environ, dotfile, api_key, steps,
                   agentTools, verbose, turn, nTools, nFailed, afterFail,
                   pending, mulResult, stdout, issued, returned, printed,
                   inflight, files, exc, raisedAt, cellError,
                   env0, defined, lastRun, shadowOut>>

ReturnsEarly(ph) == ph \in {"llm", "final"}

\* The call is over once the hosted model has given its final answer.
CallComplete(ph) == ph = "final"

\* The call returns the response to the notebook statement.
ChatReturn ==
    /\ exc = "none" /\ CallComplete(phase)
    /\ returned' = Append(returned, turn)
    /\ inflight' = inflight \ {turn}
    /\ phase' = "idle"
    /\ pc' = pc + 1
    /\ waiting' = FALSE
    /\ UNCHANGED <<nb, environ, dotfile, api_key, steps, agentTools, verbose,
                   turn, nTools, nFailed, afterFail, pending, mulResult,
                   events, stdout, issued, printed, memory, files, exc,
                   raisedAt, cellError,
                   env0, defined, lastRun, shadowOut>>

\* print(response) / print(str(response))
PrintResponse ==
    /\ Running /\ ~waiting
    /\ Stmt.kind = "print"
    /\ printed' = Append(printed, Stmt.n)
    /\ stdout' = Append(stdout,
                        Rec("response", PrintedText(EffectiveKey, "reply")))
    /\ shadowOut' = Append(shadowOut,
                           Rec("response", PrintedText(ShadowKey, "reply")))
    /\ events' = Append(events, "print")
    /\ pc' = pc + 1
    /\ UNCHANGED <<nb, waiting, environ, dotfile, api_key, steps, agentTools,
                   verbose, phase, turn, nTools, nFailed, afterFail, pending,
                   mulResult, issued, returned, inflight, memory, files, exc,
                   raisedAt, cellError,
                   env0, defined, lastRun>>

\* ------------------------------------------------------------- failures

\* Where the library is, seen from the notebook statement being run.
Place ==
    IF phase \in {"llm", "dispatch"} THEN phase
    ELSE IF ~Done /\ ~waiting /\ Stmt.kind \in {"llm", "agent"} THEN "construct"
    ELSE "none"

\* What the library can raise at each place.
FailuresAt(place) ==
    CASE place = "construct" ->
           IF KeyPresent THEN {} ELSE {"MissingKey"}
      [] place = "llm" ->
           IF KeyPresent THEN {"InvalidCredential", "NetworkError"}
           ELSE {"MissingKey"}
      [] place = "dispatch" -> {"MalformedToolArgs"}
      [] OTHER -> {}

\* The external library raises while constructing the client or agent, or
\* inside an agent call.
LibraryRaise ==
    /\ exc = "none" /\ cellError = "none"
    /\ \E k \in FailuresAt(Place) : exc' = k
    /\ raisedAt' = Place
    /\ inflight' = IF Place = "construct" THEN inflight ELSE inflight \ {turn}
    /\ phase' = "idle"
    /\ UNCHANGED <<nb, pc, waiting, environ, dotfile, api_key, steps,
                   agentTools, verbose, turn, nTools, nFailed, afterFail,
                   pending, mulResult, events, stdout, issued, returned,
                   printed, memory, files, cellError,
                   env0, defined, lastRun, shadowOut>>

Wrapped(e) == "RuntimeError"

\* No statement of the notebooks sits in a try block: what the library
\* raised is what leaves the cell.
Uncaught(e) == e

\* The exception leaves the notebook code and ends the run.
Propagate ==
    /\ exc # "none" /\ cellError = "none"
    /\ cellError' = Uncaught(exc)
    /\ UNCHANGED <<nb, pc, waiting, environ, dotfile, api_key, steps,
                   agentTools, verbose, phase, turn, nTools, nFailed,
                   afterFail, pending, mulResult, events, stdout, issued,
                   returned, printed, inflight, memory, files, exc, raisedAt,
                   env0, defined, lastRun, shadowOut>>

Next ==
    \/ LoadCredentials
    \/ ReadKey
    \/ ConstructLlm
    \/ ConstructTool
    \/ ConstructAgent
    \/ ChatIssue
    \/ LlmRequestTool
    \/ ToolCall
    \/ ToolReturn
    \/ LlmFinal
    \/ ChatReturn
    \/ PrintResponse
    \/ LibraryRaise
    \/ Propagate

Spec == Init /\ [][Next]_vars


\* --------------------------------------------------------------- claims

Range(s) == {s[i] : i \in 1..Len(s)}

Count(s, x) == Cardinality({i \in 1..Len(s) : s[i] = x})

\* Position of the first x in s, 0 when absent.
IndexOf(s, x) ==
    IF x \in Range(s) THEN CHOOSE i \in 1..Len(s) :
                              s[i] = x /\ \A j \in 1..(i - 1) : s[j] # x
    ELSE 0

Before(s, x, y) == IndexOf(s, x) > 0 /\ IndexOf(s, x) < IndexOf(s, y)

RECURSIVE ShiftAdd(_, _)
\* a added to itself n times (n >= 0), by halving n: no multiplication.
ShiftAdd(a, n) ==
    IF n = 0 THEN 0
    ELSE LET h == ShiftAdd(a, n \div 2)
         IN  h + h + (IF n % 2 = 1 THEN a ELSE 0)

\* Reference product of two integers.
RefMul(a, b) == IF b >= 0 THEN ShiftAdd(a, b) ELSE 0 - ShiftAdd(a, 0 - b)

\* C1: whatever arguments multiply was invoked with, its result is their
\* product (reference: shift-and-add), and 1234 * 4567 gives 5,635,678.
C1_MultiplyIsProduct ==
    mulResult # <<>> =>
        /\ mulResult[3] = RefMul(mulResult[1], mulResult[2])
        /\ (mulResult[1] = 1234 /\ mulResult[2] = 4567
              => mulResult[3] = 5635678)
        /\ (mulResult[1] = 0 \/ mulResult[2] = 0 => mulResult[3] = 0)

C1_Witness == mulResult = <<1234, 4567, 5635678>>

\* C2: an interaction starts with the user text, then has only tool
\* invocations until the one final completion, after which nothing but the
\* print of the response follows; a call that returned has had its final
\* completion, with or without tool invocations before it.
C2_InteractionOrder ==
    /\ events # <<>> => events[1] = "user"
    /\ \A i \in 2..Len(events) : events[i] # "user"
    /\ Count(events, "final") <= 1
    /\ Count(events, "print") <= 1
    /\ \A i \in 1..Len(events) : \A j \in (i + 1)..Len(events) :
         events[i] = "final" => events[j] = "print"
    /\ \A i \in 1..Len(events) :
         events[i] = "print" =>
             /\ i = Len(events)
             /\ events[i - 1] = "final"
    /\ (returned # <<>> /\ returned[Len(returned)] = turn)
         => Count(events, "final") = 1

C2_Witness == events = <<"user", "final", "print">>

\* C3: a failure raised by the library leaves the notebook code as it was
\* raised; the failed call is not issued again, its turn prints nothing and
\* the run does nothing more.
C3_FailurePropagates ==
    /\ exc # "none" =>
         /\ exc \in FailureKinds
         /\ cellError \in {"none", exc}
         /\ raisedAt = "construct" => issued = <<>>
         /\ raisedAt # "construct" =>
              /\ Count(issued, turn) = 1
              /\ turn \notin Range(printed)
              /\ turn \notin Range(returned)
         /\ \A i \in 1..Len(stdout) : stdout[i].kind # "response"
    /\ cellError # "none" =>
         /\ cellError = exc
         /\ ~ENABLED Next

C3_Witness ==
    /\ cellError = "NetworkError"
    /\ raisedAt = "llm"
    /\ turn = 2
    /\ nTools = 1

\* C4 as stated: once a tool invocation of the turn has failed, no further
\* tool invocation and no final answer follow in that turn.
C4_ToolFailureEndsTurn ==
    nFailed > 0 =>
        /\ afterFail = 0
        /\ phase # "final"
        /\ ~(returned # <<>> /\ returned[Len(returned)] = turn)

\* C4 amended: a failed tool invocation raises nothing; the turn stays in
\* the agent loop, which hands the error back to the model, and no turn is
\* issued a second time by the notebook.
C4_ToolFailureReturnsToModel ==
    /\ (nFailed > 0 /\ turn \in inflight) =>
         /\ exc = "none"
         /\ phase \in {"llm", "dispatch", "tool", "final"}
    /\ exc # "none" => raisedAt \in {"construct", "llm", "dispatch"}
    /\ \A t \in Range(issued) : Count(issued, t) = 1

C4_Witness ==
    /\ nFailed > 0
    /\ afterFail > 0
    /\ returned # <<>> /\ returned[Len(returned)] = turn

\* C5: credentials are loaded before the tool, the LLM client and the agent
\* are built, the tool before the agent, and the agent before any turn.
C5_SetupOrder ==
    /\ "tool" \in Range(steps) => Before(steps, "load_dotenv", "tool")
    /\ "llm" \in Range(steps) => Before(steps, "load_dotenv", "llm")
    /\ "agent" \in Range(steps) =>
         /\ Before(steps, "load_dotenv", "agent")
         /\ Before(steps, "tool", "agent")
    /\ issued # <<>> => "agent" \in Range(steps) /\ agentTools # {}

C5_Witness ==
    /\ issued # <<>>
    /\ steps = <<"load_dotenv", "getenv", "llm", "tool", "agent">>

\* C6 as stated: when a notebook has run to its end, the responses handed
\* to print are exactly those of the calls that returned, once each, in
\* issue order.
C6_EveryResponsePrinted ==
    (Done /\ exc = "none") => printed = returned

\* C7: at most one agent call is in flight, it is the turn last issued, and
\* every turn issued before it has returned.
C7_OneCallInFlight ==
    /\ Cardinality(inflight) <= 1
    /\ inflight \subseteq {turn}
    /\ \A i \in 1..(Len(issued) - 1) : issued[i] \in Range(returned)
    /\ \A i \in 1..Len(issued) : i < Len(issued) => issued[i] < issued[i + 1]

C7_Witness ==
    /\ Len(issued) = 2
    /\ inflight = {2}
    /\ phase = "tool"

\* C8 as stated: no turn ever writes a file.
C8_NoFileWritten == files = {}

\* C8 amended: files are written, and only by code_interpreter
\* invocations, hence only in the code-interpreter notebook.
C8_OnlyInterpreterWrites ==
    \A f \in files :
        /\ f.by = "code_interpreter"
        /\ nb = "code"
        /\ f.name \in {"output.png", "output_lowest.png"}

C8_Witness ==
    /\ [name |-> "output.png", by |-> "code_interpreter"] \in files
    /\ returned # <<>> /\ returned[Len(returned)] = turn

\* The tool each notebook's agent is expected to call.
ExpectedTool(n) ==
    CASE n = "ddg" -> "search"
      [] n = "arxiv" -> "arxiv_query"
      [] n = "code" -> "code_interpreter"
      [] n = "calc" -> "multiply"

\* C9: a requested or running tool invocation, and every call record,
\* names the notebook's registered tool; the agent's tool set is empty
\* before construction and the same set ever after.
C9_OnlyRegisteredTools ==
    /\ phase \in {"dispatch", "tool"} => pending.name = ExpectedTool(nb)
    /\ pending.name \in {"none", ExpectedTool(nb)}
    /\ \A i \in 1..Len(stdout) :
         stdout[i].kind = "call" => stdout[i].fn = ExpectedTool(nb)
    /\ agentTools = IF "agent" \in Range(steps) THEN {ExpectedTool(nb)}
                    ELSE {}

C9_Witness ==
    /\ phase = "tool"
    /\ nTools = 2
    /\ turn = 2
    /\ pending.name = "search"

Kinds(s) == [i \in 1..Len(s) |-> s[i].kind]

\* C10: with verbose set, every tool invocation has a call record naming
\* its function, each followed at once by its output record, and the
\* response comes last, after the output record of the last invocation.
C10_VerboseOrder ==
    LET n == Len(stdout) IN
    /\ \A i \in 1..n :
         stdout[i].kind = "call" =>
             \/ i = n /\ phase = "tool"
             \/ i < n /\ stdout[i + 1].kind = "output"
    /\ \A i \in 1..n :
         stdout[i].kind = "output" => i > 1 /\ stdout[i - 1].kind = "call"
    /\ \A i \in 1..n : stdout[i].kind = "response" => i = n
    /\ verbose =>
         /\ Count(Kinds(stdout), "call") = nTools
         /\ Count(Kinds(stdout), "output")
              = IF phase = "tool" THEN nTools - 1 ELSE nTools
         /\ turn > 0 => stdout[1].kind = "memory"
    /\ ~verbose => \A i \in 1..n : stdout[i].kind = "response"

C10_Witness ==
    /\ verbose
    /\ Kinds(stdout) = <<"memory", "call", "output", "call", "output",
                         "response">>


\* Turns of the user messages held in memory, in memory order.
UserTurns(mem) ==
    LET us == SelectSeq(mem, LAMBDA m : m.role = "user")
    IN  [i \in 1..Len(us) |-> us[i].turn]

IsPrefix(s, t) == Len(s) <= Len(t) /\ \A i \in 1..Len(s) : s[i] = t[i]

C11_MemoryHoldsAllTurns ==
    /\ UserTurns(memory) = issued
    /\ \A t \in Range(issued) :
         Count(memory, [role |-> "user", turn |-> t]) = 1
    /\ nTools > 0 => [role |-> "user", turn |-> turn] \in Range(memory)
    /\ \A i \in 1..Len(memory) :
         memory[i].role = "assistant" =>
             \E j \in 1..(i - 1) :
                 memory[j] = [role |-> "user", turn |-> memory[i].turn]

\* C11: memory is append-only within one agent: every turn's user message
\* is in memory exactly once, in issue order, from before the turn's first
\* tool invocation on, and no step removes or reorders an entry.
C11_MemoryAppendOnly ==
    /\ []C11_MemoryHoldsAllTurns
    /\ [][IsPrefix(memory, memory')]_vars

C11_Witness ==
    /\ nb = "code"
    /\ turn = 3
    /\ phase = "tool"
    /\ UserTurns(memory) = <<1, 2, 3>>
    /\ memory[1] = [role |-> "user", turn |-> 1]


\* C12: code_interpreter invocations share no interpreter state: code that
\* reads a name it does not define itself ends in an error, also when an
\* earlier invocation (same turn or an earlier one) defined that name; the
\* error is what the output record shows, and the user messages of all
\* turns so far are still in memory.
C12_NoSharedInterpreterState ==
    lastRun.outcome # "none" =>
        /\ lastRun.uses # {} => lastRun.outcome = "error"
        /\ lastRun.uses \cap lastRun.before # {} => lastRun.outcome = "error"
        /\ (phase = "llm" /\ nTools > 0 /\ verbose) =>
               stdout[Len(stdout)] = Rec("output", lastRun.outcome)
        /\ \A t \in 1..turn : [role |-> "user", turn |-> t] \in Range(memory)

C12_Witness ==
    /\ turn = 3
    /\ lastRun = [uses |-> {"data"}, before |-> {"data"}, outcome |-> "error"]
    /\ [role |-> "assistant", turn |-> 2] \in Range(memory)
    /\ phase = "llm"


\* The key each notebook is said to use, from the kernel's environment e
\* and the .env file d.
ExpectedKey(n, e, d) ==
    IF e # "none" /\ d # "none" THEN (IF n = "ddg" THEN e ELSE d)
    ELSE IF e # "none" THEN e
    ELSE d

\* C13: once load_dotenv has run, the key in the environment, the key read
\* by os.getenv and the key the LLM client gets are the .env value in the
\* calculator, arXiv and code-interpreter notebooks and the pre-existing
\* environment value in the DuckDuckGo notebook when both define it, and
\* the one defined value when only one does.
C13_KeyPrecedence ==
    "load_dotenv" \in Range(steps) =>
        /\ environ = ExpectedKey(nb, env0, dotfile)
        /\ EffectiveKey = ExpectedKey(nb, env0, dotfile)
        /\ "getenv" \in Range(steps) =>
               api_key = ExpectedKey(nb, env0, dotfile)

C13_Witness ==
    /\ nb = "ddg"
    /\ env0 = "envkey" /\ dotfile = "dotkey"
    /\ phase = "llm"
    /\ EffectiveKey = "envkey"

\* C14: with the key in neither the environment nor .env, os.getenv hands
\* on the absent value unchanged, the notebook goes on to the library
\* calls, and the only failure is the library's missing-key failure,
\* raised inside a constructor or an agent call.
C14_MissingKeyLeftToLibrary ==
    (env0 = "none" /\ dotfile = "none") =>
        /\ "getenv" \in Range(steps) => api_key = "none"
        /\ EffectiveKey = "none"
        /\ returned = <<>>
        /\ exc # "none" =>
             /\ exc = "MissingKey"
             /\ raisedAt \in {"construct", "llm"}
             /\ Stmt.kind \in {"llm", "agent", "chat"}

C14_Witness ==
    /\ nb = "calc"
    /\ env0 = "none" /\ dotfile = "none"
    /\ api_key = "none"
    /\ "agent" \in Range(steps)
    /\ raisedAt = "llm"
    /\ cellError = "MissingKey"

KeyValues == {"envkey", "dotkey", ShadowKey}

\* C16: the key reaches nothing but the LLM client: no record of the cell
\* output, no requested function call and no file holds a key value, and the
\* same run made with another valid key, given the same model and tool
\* replies, writes the same cell output.
C16_KeyIsOpaque ==
    /\ \A i \in 1..Len(stdout) : stdout[i].fn \notin KeyValues
    /\ pending.name \notin KeyValues
    /\ (pending.uses \cup pending.defs) \cap KeyValues = {}
    /\ \A f \in files : f.name \notin KeyValues
    /\ KeyPresent => shadowOut = stdout

C16_Witness ==
    /\ nb = "calc"
    /\ EffectiveKey = "dotkey"
    /\ printed = <<1>>
    /\ nTools = 1
    /\ stdout = <<Rec("response", "reply")>>
    /\ shadowOut = stdout

====
